---------------------------- MODULE Spec2Model ----------------------------
(***************************************************************************)
(* Model of the EVM transfer client (src/client.py) and of the flow that   *)
(* drives it (src/main.py).                                                *)
(*                                                                         *)
(* Numbers.  Base-unit amounts reach 2^256 and decimal amounts are Python  *)
(* Decimals, so both are kept as digit sequences:                          *)
(*   Big  a natural number, most significant digit first, << >> for 0      *)
(*   Dec  [c |-> Big, x |-> Int], the decimal c * 10^x (Python's           *)
(*        coefficient and exponent); an int n is the Dec [c |-> n, x |-> 0]*)
(* Fee values and gas limits are small integers of wei.                    *)
(***************************************************************************)
EXTENDS Integers, Sequences, FiniteSets, TLC

\* ------------------------------------------------------------------ bounds
\* Largest decimals value handed to the unit converter by a direct call.
MaxDecimals == 19
\* Number of set_contract calls one run makes.
MaxBinds == 2
\* Largest gas limit the RPC endpoint estimates.
MaxGasLimit == 2

\* ------------------------------------------------------- digit sequences
Max(a, b) == IF a >= b THEN a ELSE b
Min(a, b) == IF a <= b THEN a ELSE b

Zeros(k) == [i \in 1..k |-> 0]

RECURSIVE NatDigits(_)
NatDigits(n) == IF n = 0 THEN << >> ELSE Append(NatDigits(n \div 10), n % 10)

RECURSIVE StripLead(_)
StripLead(s) ==
    IF s = << >> THEN << >>
    ELSE IF s[1] = 0 THEN StripLead(Tail(s)) ELSE s

\* a < b for two Bigs without leading zeros.
BigLess(a, b) ==
    \/ Len(a) < Len(b)
    \/ /\ Len(a) = Len(b)
       /\ \E i \in 1..Len(a) :
            /\ a[i] < b[i]
            /\ \A j \in 1..(i - 1) : a[j] = b[j]

PadLeft(s, n) == Zeros(n - Len(s)) \o s

\* Sum of two digit sequences of the same length, with the carry in front.
RECURSIVE AddAligned(_, _, _)
AddAligned(a, b, carry) ==
    IF a = << >> THEN (IF carry = 0 THEN << >> ELSE << carry >>)
    ELSE LET n == Len(a)
             t == a[n] + b[n] + carry
         IN  Append(AddAligned(SubSeq(a, 1, n - 1), SubSeq(b, 1, n - 1), t \div 10),
                    t % 10)

BigAdd(a, b) ==
    LET n == Max(Len(a), Len(b))
    IN  StripLead(AddAligned(PadLeft(a, n), PadLeft(b, n), 0))

\* ---------------------------------------------------------------- Decimal
D(m, e) == [c |-> NatDigits(m), x |-> e]
DecZero == [c |-> << >>, x |-> 0]

\* The coefficient of d written at exponent e (e <= d.x).
Coeff(d, e) == StripLead(d.c \o Zeros(d.x - e))

\* Decimal.__lt__ and __eq__ compare the exact values (no context rounding).
DecLess(a, b) ==
    LET e == Min(a.x, b.x) IN BigLess(Coeff(a, e), Coeff(b, e))
DecEq(a, b) ==
    LET e == Min(a.x, b.x) IN Coeff(a, e) = Coeff(b, e)
DecLeq(a, b) == ~DecLess(b, a)

DecAddExact(a, b) ==
    LET e == Min(a.x, b.x)
    IN  [c |-> BigAdd(Coeff(a, e), Coeff(b, e)), x |-> e]

\* Python's default decimal context: 28 significant digits, ROUND_HALF_EVEN.
DecimalPrec == 28

Round(d, prec) ==
    IF Len(d.c) <= prec THEN d
    ELSE LET kept == SubSeq(d.c, 1, prec)
             rest == SubSeq(d.c, prec + 1, Len(d.c))
             tailZero == \A i \in 2..Len(rest) : rest[i] = 0
             up == \/ rest[1] > 5
                   \/ rest[1] = 5 /\ ~tailZero
                   \/ rest[1] = 5 /\ tailZero /\ kept[prec] % 2 = 1
         IN  [c |-> IF up THEN BigAdd(kept, << 1 >>) ELSE kept,
              x |-> d.x + Len(rest)]

\* Decimal.__add__ under the default context: the exact sum, rounded.
DecAdd(a, b) == Round(DecAddExact(a, b), DecimalPrec)

\* --------------------------------------------------------- unit converter
Ok(v) == [ok |-> TRUE, val |-> v, err |-> "none"]
Err(e) == [ok |-> FALSE, val |-> << >>, err |-> e]

\* 2**256 - 1, the largest value web3's to_wei and from_wei accept.
MaxWei ==
    << 1,1,5,7,9,2,0,8,9,2,3,7,3,1,6,1,9,5,4,2,3,5,7,0,9,8,5,0,0,8,6,8,7,9,0,7,8,5,3,
       2,6,9,9,8,4,6,6,5,6,4,0,5,6,4,0,3,9,4,5,7,5,8,4,0,0,7,9,1,3,1,2,9,6,3,9,9,3,5 >>

\* unit_names of to_wei and from_wei: decimals -> unit name.
UnitNames == (6 :> "mwei") @@ (9 :> "gwei") @@ (18 :> "ether")
\* web3's unit table: unit name -> power of ten.
UnitScale == [u \in {"mwei", "gwei", "ether"} |->
                 CASE u = "mwei" -> 6 [] u = "gwei" -> 9 [] u = "ether" -> 18]

\* web3.to_wei(value, unit): int(value * 10^scale), truncating; a result above
\* 2**256 - 1 raises ValueError.
Web3ToWei(value, unit) ==
    LET s == value.x + UnitScale[unit]
        n == Len(value.c)
        r == IF s >= 0 THEN value.c \o Zeros(s)
             ELSE IF n + s <= 0 THEN << >> ELSE SubSeq(value.c, 1, n + s)
    IN  IF value.c = << >> THEN Ok(<< >>)
        ELSE IF BigLess(MaxWei, r) THEN Err("ValueError")
        ELSE Ok(r)

\* web3.from_wei(number, unit): 0 for 0, else Decimal(number) / 10^scale at
\* precision 999 (exact); a number above 2**256 - 1 raises ValueError.
Web3FromWei(number, unit) ==
    IF number = << >> THEN Ok(DecZero)
    ELSE IF BigLess(MaxWei, number) THEN Err("ValueError")
    ELSE Ok([c |-> number, x |-> 0 - UnitScale[unit]])

\* to_wei with an unknown precision falling back to 18 decimals.
to_wei_default_ether(value, decimals) ==
    IF decimals \notin DOMAIN UnitNames THEN Web3ToWei(value, "ether")
    ELSE Web3ToWei(value, UnitNames[decimals])

\* Client.to_wei
to_wei(value, decimals) ==
    IF decimals \notin DOMAIN UnitNames THEN Err("UnsupportedPrecision")
    ELSE Web3ToWei(value, UnitNames[decimals])

\* from_wei with the names of the 6- and 9-decimals units exchanged.
from_wei_swapped(value, decimals) ==
    IF decimals \notin DOMAIN UnitNames THEN Err("UnsupportedPrecision")
    ELSE Web3FromWei(value, CASE decimals = 6 -> "gwei"
                              [] decimals = 9 -> "mwei"
                              [] OTHER -> "ether")

\* Client.from_wei
from_wei(value, decimals) ==
    IF decimals \notin DOMAIN UnitNames THEN Err("UnsupportedPrecision")
    ELSE Web3FromWei(value, UnitNames[decimals])


\* ------------------------------------------------------------ environment
\* An address string: the account or token it names and the form it is
\* written in ("lower", "checksum" or "malformed").
NoAddress == [tok |-> "none", form |-> "none"]
Addr(t, f) == [tok |-> t, form |-> f]

\* web3.to_checksum_address: the checksummed form; a malformed string raises.
to_checksum_address(a) ==
    IF a.form = "malformed" THEN [ok |-> FALSE, val |-> NoAddress]
    ELSE [ok |-> TRUE, val |-> Addr(a.tok, "checksum")]

\* The token contracts deployed on the chain, with what decimals() returns.
TokenDecimals == ("tokA" :> 6) @@ ("tokB" :> 18) @@ ("tokC" :> 8)
Tokens == DOMAIN TokenDecimals

\* Addresses handed to set_contract, and recipients handed to
\* prepare_transaction.
BindAddresses ==
    {Addr("tokA", "lower"), Addr("tokB", "checksum"), Addr("tokC", "lower"),
     Addr("none", "malformed")}
Recipients == {Addr("rcpt", "lower"), Addr("rcpt", "checksum"), Addr("none", "malformed")}

\* 5.0000000000000000000000000001E-17: 29 significant digits.
LongAmount == [c |-> << 5 >> \o Zeros(27) \o << 1 >>, x |-> 0 - 45]

\* Amounts handed to prepare_transaction (in whole coins or tokens).
Amounts == {D(0, 0), D(50, 0 - 18), LongAmount, D(40, 0), D(1, 60)}

\* Values the RPC endpoint returns.
GasPrices == {5, 100, 200}
PriorityFees == {0, 10}
GasLimits == 1..MaxGasLimit
NativeBalances == {NatDigits(5), NatDigits(55), NatDigits(60), NatDigits(250)}
TokenBalances == {NatDigits(30), NatDigits(100), NatDigits(30) \o Zeros(6)}

\* --------------------------------------------------------------- the state
VARIABLES
    contract,           \* Client.contract: "None" or the token the handle is for
    contract_address,   \* Client.contract_address: NoAddress or a checksummed address
    useEip1559,         \* Client.USE_EIP_1559 (config, fixed for the run)
    bind,               \* the set_contract call in flight, and how the last one ended
    pc,                 \* position of the transfer flow (main, lines 28-35)
    frame,              \* locals of prepare_transaction and _ensure_sufficient_funds
    route,              \* which branch each test of self.contract took in prepare_transaction
    broadcasts,         \* raw transactions handed to send_raw_transaction
    wait,               \* wait_for_transaction: hash, seconds elapsed, chain status
    conv                \* a direct call of the unit converter

vars == << contract, contract_address, useEip1559, bind, pc, frame, route,
           broadcasts, wait, conv >>

NoData == [fn |-> "none", to |-> NoAddress, amount |-> << >>]

\* The draft (TxParams): the keys present and their values.
EmptyTx ==
    [keys |-> {}, value |-> << >>, maxPriorityFeePerGas |-> 0, maxFeePerGas |-> 0,
     gasPrice |-> 0, gas |-> 0, to |-> NoAddress, data |-> NoData]

EmptyFrame ==
    [recipient |-> NoAddress, value |-> DecZero, transaction |-> EmptyTx,
     base_fee |-> 0, max_priority_fee |-> 0, gas_price |-> 0,
     gas_cost_multiplier |-> 0, token |-> "None", gas_cost |-> DecZero,
     native_balance_wei |-> << >>, native_balance |-> DecZero,
     funds_token |-> "None", contract_balance_wei |-> << >>, decimals |-> 0,
     contract_balance |-> DecZero, err |-> "none", shortfall |-> "none",
     at |-> "none"]

\* calls: the set_contract calls made so far.
IdleBind == [pc |-> "idle", arg |-> NoAddress, abi |-> "none", calls |-> 0]
IdleWait == [hash |-> "none", elapsed |-> 0, chain |-> "none", receipt |-> "none"]
IdleConv == [pc |-> "idle", value |-> DecZero, decimals |-> 0, wei |-> Ok(<< >>),
             back |-> Ok(DecZero)]
NoRoute == [value |-> "unset", build |-> "unset", funds |-> "unset"]

\* Client.__init__ (lines 20-34), before main calls anything.
Init ==
    /\ contract = "None"
    /\ contract_address = NoAddress
    /\ useEip1559 \in BOOLEAN
    /\ bind = IdleBind
    /\ pc = "idle"
    /\ frame = EmptyFrame
    /\ route = NoRoute
    /\ broadcasts = 0
    /\ wait = IdleWait
    /\ conv = IdleConv

\* ------------------------------------------------------------ set_contract
\* set_contract is called and suspends in _load_abi (line 37).
BindCall(a) ==
    /\ bind.pc = "idle"
    /\ bind.calls < MaxBinds
    /\ bind' = [bind EXCEPT !.pc = "load_abi", !.arg = a, !.calls = @ + 1]
    /\ UNCHANGED << contract, contract_address, useEip1559, pc, frame, route,
                    broadcasts, wait, conv >>

\* _load_abi fails (the file is missing or is not JSON): the exception leaves
\* set_contract at line 37.
BindLoadFails ==
    /\ bind.pc = "load_abi"
    /\ bind' = [bind EXCEPT !.pc = "idle", !.arg = NoAddress]
    /\ UNCHANGED << contract, contract_address, useEip1559, pc, frame, route,
                    broadcasts, wait, conv >>

\* _load_abi has read the file: parsed JSON, a usable ABI or not.
BindLoaded(abi) ==
    /\ bind.pc = "load_abi"
    /\ bind' = [bind EXCEPT !.pc = "loaded", !.abi = abi]
    /\ UNCHANGED << contract, contract_address, useEip1559, pc, frame, route,
                    broadcasts, wait, conv >>

\* set_contract keeping the first binding.
set_contract_once(a, abi, old_contract, old_address) ==
    LET cs == to_checksum_address(a)
    IN  IF ~cs.ok \/ old_contract # "None"
        THEN [contract |-> old_contract, contract_address |-> old_address]
        ELSE IF abi = "invalid"
             THEN [contract |-> old_contract, contract_address |-> cs.val]
        ELSE [contract |-> cs.val.tok, contract_address |-> cs.val]

\* What lines 38-39 leave in the two fields: to_checksum_address raises
\* before anything is assigned, eth.contract raises on an unusable ABI after
\* contract_address is assigned.
set_contract(a, abi, old_contract, old_address) ==
    LET cs == to_checksum_address(a)
    IN  IF ~cs.ok THEN [contract |-> old_contract, contract_address |-> old_address]
        ELSE IF abi = "invalid"
             THEN [contract |-> old_contract, contract_address |-> cs.val]
        ELSE [contract |-> cs.val.tok, contract_address |-> cs.val]

\* set_contract resumes with the ABI; lines 38-39 run without suspending.
BindResume ==
    /\ bind.pc = "loaded"
    /\ LET f == set_contract(bind.arg, bind.abi, contract, contract_address)
       IN  /\ contract' = f.contract
           /\ contract_address' = f.contract_address
    /\ bind' = [bind EXCEPT !.pc = "idle", !.arg = NoAddress, !.abi = "none"]
    /\ UNCHANGED << useEip1559, pc, frame, route, broadcasts, wait, conv >>

\* ----------------------------------------------------- prepare_transaction
\* The 5% markup, 1.05 = MarkupNum / MarkupDen.
MarkupNum == 21
MarkupDen == 20

\* The markup rounded up.
MarkupCeil(fee) == (fee * MarkupNum + MarkupDen - 1) \div MarkupDen

\* int(fee * 1.05), lines 88 and 99: a double product, truncated.  The double
\* nearest 1.05 exceeds it by less than 5e-17, so for a fee below 2^31 the
\* product rounds to the exact 21*fee/20 when that is an integer and stays
\* strictly between two integers otherwise: the result is the floor.
Markup(fee) == (fee * MarkupNum) \div MarkupDen

bindIdleVars == << contract, contract_address, useEip1559, bind >>

\* The error is recorded and the step is tried again.
RaiseRetried(step, kind, shortfall) ==
    /\ pc' = pc
    /\ frame' = [frame EXCEPT !.err = kind, !.shortfall = shortfall, !.at = step]

\* An exception leaves the flow: main does not catch it (lines 28-30).
Raise(step, kind, shortfall) ==
    /\ pc' = "failed"
    /\ frame' = [frame EXCEPT !.err = kind, !.shortfall = shortfall, !.at = step]

\* Lines 104-112 up to the first await: self.contract is tested, and the
\* handle it holds is the one decimals() and transfer() are called on.
AfterFees(fr) ==
    IF contract # "None"
    THEN /\ frame' = [fr EXCEPT !.token = contract]
         /\ route' = [route EXCEPT !.build = "token"]
         /\ pc' = "decimals"
    ELSE /\ frame' = fr
         /\ route' = [route EXCEPT !.build = "native"]
         /\ pc' = "estimate_gas"

\* main line 28: prepare_transaction(recipient, value) runs to its first
\* await (line 77); to_checksum_address raises on a malformed recipient.
PrepareCall(r, v) ==
    /\ pc = "idle"
    /\ LET cs == to_checksum_address(r)
       IN  IF cs.ok
           THEN /\ frame' = [frame EXCEPT !.recipient = cs.val, !.value = v]
                /\ pc' = "chain_id"
           ELSE /\ pc' = "failed"
                /\ frame' = [frame EXCEPT !.value = v, !.err = "InvalidAddress",
                                          !.at = "prepare"]
    /\ UNCHANGED << bindIdleVars, route, broadcasts, wait, conv >>

\* Line 77: eth.chain_id.
RpcChainId ==
    /\ pc = "chain_id"
    /\ \/ /\ pc' = "nonce"
          /\ UNCHANGED frame
       \/ Raise("chain_id", "RpcError", "none")
    /\ UNCHANGED << bindIdleVars, route, broadcasts, wait, conv >>

\* Lines 78-83: eth.get_transaction_count, then the draft is created and, with
\* no contract bound, given the amount as its native value.
RpcNonce ==
    /\ pc = "nonce"
    /\ \/ LET t0 == [EmptyTx EXCEPT !.keys = {"chainId", "nonce", "from"}]
              w == Web3ToWei(frame.value, "ether")
          IN  IF contract = "None"
              THEN IF w.ok
                   THEN /\ frame' = [frame EXCEPT !.transaction =
                                        [t0 EXCEPT !.keys = @ \cup {"value"}, !.value = w.val]]
                        /\ route' = [route EXCEPT !.value = "native"]
                        /\ pc' = "gas_price"
                   ELSE /\ Raise("nonce", w.err, "none")
                        /\ route' = [route EXCEPT !.value = "native"]
              ELSE /\ frame' = [frame EXCEPT !.transaction = t0]
                   /\ route' = [route EXCEPT !.value = "token"]
                   /\ pc' = "gas_price"
       \/ Raise("nonce", "RpcError", "none") /\ UNCHANGED route
    /\ UNCHANGED << bindIdleVars, broadcasts, wait, conv >>

\* Line 86 (EIP-1559) or lines 99-102 (legacy): eth.gas_price.
RpcGasPrice(p) ==
    /\ pc = "gas_price"
    /\ \/ /\ useEip1559
          /\ frame' = [frame EXCEPT !.base_fee = p]
          /\ pc' = "max_priority_fee"
          /\ UNCHANGED route
       \/ /\ ~useEip1559
          /\ LET gp == Markup(p)
             IN  AfterFees([frame EXCEPT !.gas_price = p,
                                         !.transaction.keys = @ \cup {"gasPrice"},
                                         !.transaction.gasPrice = gp,
                                         !.gas_cost_multiplier = gp])
       \/ Raise("gas_price", "RpcError", "none") /\ UNCHANGED route
    /\ UNCHANGED << bindIdleVars, broadcasts, wait, conv >>

\* Lines 87-97: eth.max_priority_fee, then the two fee fields.
RpcMaxPriorityFee(f) ==
    /\ pc = "max_priority_fee"
    /\ \/ /\ LET max_fee == Markup(frame.base_fee + f)
             IN  AfterFees([frame EXCEPT !.max_priority_fee = f,
                                         !.transaction.keys =
                                             @ \cup {"maxPriorityFeePerGas", "maxFeePerGas"},
                                         !.transaction.maxPriorityFeePerGas = f,
                                         !.transaction.maxFeePerGas = max_fee,
                                         !.gas_cost_multiplier = max_fee])
       \/ Raise("max_priority_fee", "RpcError", "none") /\ UNCHANGED route
    /\ UNCHANGED << bindIdleVars, broadcasts, wait, conv >>

\* Line 108: decimals().call() on the handle read at line 106, then to_wei.
RpcDecimals ==
    /\ pc = "decimals"
    /\ \/ LET w == to_wei(frame.value, TokenDecimals[frame.token])
          IN  IF w.ok
              THEN /\ frame' = [frame EXCEPT !.transaction.data =
                                   [fn |-> "transfer", to |-> frame.recipient,
                                    amount |-> w.val]]
                   /\ pc' = "build"
              ELSE Raise("decimals", w.err, "none")
       \/ Raise("decimals", "ContractCallError", "none")
       \/ Raise("decimals", "RpcError", "none")
    /\ UNCHANGED << bindIdleVars, route, broadcasts, wait, conv >>

\* Lines 106-109: transfer(recipient, amount).build_transaction(transaction).
\* The built draft carries the contract as "to", the call data, and the keys
\* it was given; "value" defaults to 0.  A draft given a non-zero value is
\* refused when the ABI declares transfer non-payable and built otherwise.
RpcBuild ==
    /\ pc = "build"
    /\ \/ /\ frame' = [frame EXCEPT !.transaction.keys = @ \cup {"to", "data", "value", "gas"},
                                    !.transaction.to = Addr(frame.token, "checksum")]
          /\ pc' = "estimate_gas"
       \/ /\ frame.transaction.value # << >>
          /\ Raise("build", "ValidationError", "none")
       \/ Raise("build", "ContractCallError", "none")
       \/ Raise("build", "RpcError", "none")
    /\ UNCHANGED << bindIdleVars, route, broadcasts, wait, conv >>

\* Lines 114-119: eth.estimate_gas, the gas cost in ether, and the call of
\* _ensure_sufficient_funds up to its first await (line 153).
RpcEstimateGas(gas_limit) ==
    /\ pc = "estimate_gas"
    /\ \/ /\ frame' = [frame EXCEPT
                 !.transaction.keys = @ \cup {"gas"},
                 !.transaction.gas = gas_limit,
                 !.gas_cost = Web3FromWei(NatDigits(gas_limit * frame.gas_cost_multiplier),
                                          "ether").val]
          /\ pc' = "get_balance"
       \/ Raise("estimate_gas", "RpcError", "none")
    /\ UNCHANGED << bindIdleVars, route, broadcasts, wait, conv >>

\* ------------------------------------------------ _ensure_sufficient_funds
\* Line 158: native_balance < gas_cost.
GasShortfall(native_balance, gas_cost) == DecLess(native_balance, gas_cost)

\* Line 174: native_balance < value + gas_cost (a Decimal sum, rounded by the
\* default context).
CombinedShortfall(native_balance, value, gas_cost) ==
    DecLess(native_balance, DecAdd(value, gas_cost))

\* The token check with its operands exchanged.
TokenShortfallReversed(contract_balance, value) == DecLess(value, contract_balance)

\* Line 170: contract_balance < value.
TokenShortfall(contract_balance, value) == DecLess(contract_balance, value)

\* Line 180 and line 123: the check returns True and the draft is returned.
ReturnDraft ==
    pc' = "prepared"

\* Lines 153-162 and 173-180: eth.get_balance, the gas check, then the test of
\* self.contract: the token branch suspends in balanceOf (line 163), the
\* native branch finishes the check.
RpcGetBalance(b) ==
    /\ pc = "get_balance"
    /\ \/ LET nb == Web3FromWei(b, "ether").val
              fr == [frame EXCEPT !.native_balance_wei = b, !.native_balance = nb]
          IN  IF GasShortfall(nb, frame.gas_cost)
              THEN /\ pc' = "failed"
                   /\ frame' = [fr EXCEPT !.err = "InsufficientFunds", !.shortfall = "gas",
                                          !.at = "get_balance"]
                   /\ UNCHANGED route
              ELSE IF contract # "None"
              THEN /\ frame' = [fr EXCEPT !.funds_token = contract]
                   /\ route' = [route EXCEPT !.funds = "token"]
                   /\ pc' = "balance_of"
              ELSE /\ route' = [route EXCEPT !.funds = "native"]
                   /\ IF CombinedShortfall(nb, frame.value, frame.gas_cost)
                      THEN /\ pc' = "failed"
                           /\ frame' = [fr EXCEPT !.err = "InsufficientFunds",
                                                  !.shortfall = "combined",
                                                  !.at = "get_balance"]
                      ELSE /\ frame' = fr
                           /\ ReturnDraft
       \/ Raise("get_balance", "RpcError", "none") /\ UNCHANGED route
    /\ UNCHANGED << bindIdleVars, broadcasts, wait, conv >>

\* Lines 163-165: balanceOf(self.address).call() on the handle read at line 163.
RpcBalanceOf(tb) ==
    /\ pc = "balance_of"
    /\ \/ /\ frame' = [frame EXCEPT !.contract_balance_wei = tb]
          /\ pc' = "funds_decimals"
       \/ Raise("balance_of", "RpcError", "none")
    /\ UNCHANGED << bindIdleVars, route, broadcasts, wait, conv >>

\* Lines 166-180: decimals().call() on the handle self.contract holds now,
\* from_wei, and the token check.
RpcFundsDecimals ==
    /\ pc = "funds_decimals"
    /\ \/ LET decimals == TokenDecimals[contract]
              cb == from_wei(frame.contract_balance_wei, decimals)
              fr == [frame EXCEPT !.decimals = decimals]
          IN  IF ~cb.ok
              THEN /\ pc' = "failed"
                   /\ frame' = [fr EXCEPT !.err = cb.err, !.at = "funds_decimals"]
              ELSE IF TokenShortfall(cb.val, frame.value)
              THEN /\ pc' = "failed"
                   /\ frame' = [fr EXCEPT !.contract_balance = cb.val,
                                          !.err = "InsufficientFunds",
                                          !.shortfall = "token",
                                          !.at = "funds_decimals"]
              ELSE /\ frame' = [fr EXCEPT !.contract_balance = cb.val]
                   /\ ReturnDraft
       \/ Raise("funds_decimals", "RpcError", "none")
    /\ UNCHANGED << bindIdleVars, route, broadcasts, wait, conv >>

\* ----------------------------------------------- sign_and_send_transaction
\* main line 29, client lines 127-132: the draft is signed and handed to
\* eth.send_raw_transaction; prepare_transaction's other locals are gone.
SignAndSend ==
    /\ pc = "prepared"
    /\ route' = NoRoute
    /\ \/ /\ pc' = "send_raw"
          /\ frame' = [EmptyFrame EXCEPT !.transaction = frame.transaction]
       \/ /\ pc' = "failed"
          /\ frame' = [EmptyFrame EXCEPT !.transaction = frame.transaction,
                                         !.err = "SigningError", !.at = "sign"]
    /\ UNCHANGED << bindIdleVars, broadcasts, wait, conv >>

\* The hash of the transaction the flow broadcast, and a hash no transaction
\* on the chain has.
Hashes == {"tx", "unknown"}

\* wait_for_transaction(tx_hash) up to its first poll (line 143).
StartWait(h) ==
    wait' = [hash |-> h, elapsed |-> 0,
             chain |-> IF h = "tx" THEN "pending" ELSE "unknown", receipt |-> "none"]

\* Lines 132-136 and main line 30: the node accepts the raw transaction and
\* the flow goes on into wait_for_transaction, or the submission is refused.
RpcSendRaw ==
    /\ pc = "send_raw"
    /\ \/ /\ broadcasts' = broadcasts + 1
          /\ pc' = "wait_poll"
          /\ frame' = EmptyFrame
          /\ StartWait("tx")
       \/ /\ pc' = "failed"
          /\ frame' = [frame EXCEPT !.err = "BroadcastError", !.at = "send_raw"]
          /\ UNCHANGED << broadcasts, wait >>
    /\ UNCHANGED << bindIdleVars, route, conv >>

\* ---------------------------------------------------- wait_for_transaction
\* The timeout wait_for_transaction_receipt is called with (its default), in
\* seconds; line 147 names it.
WaitTimeoutSeconds == 120

Waiting == pc = "wait_poll"

\* A wait with no deadline.
TimedOutNever(elapsed) == FALSE

\* The deadline of the receipt wait has passed.
TimedOut(elapsed) == elapsed >= WaitTimeoutSeconds

\* wait_for_transaction called on any hash, by a caller that holds one.
WaitCall(h) ==
    /\ pc = "idle"
    /\ pc' = "wait_poll"
    /\ StartWait(h)
    /\ UNCHANGED << bindIdleVars, frame, route, broadcasts, conv >>

\* One poll of the receipt (line 143): the receipt is there and is returned
\* (main lines 32-35 print its status), or it is not and the wait goes on, or
\* the RPC call fails with another error, which propagates.
WaitPoll ==
    /\ Waiting
    /\ ~TimedOut(wait.elapsed)
    /\ \/ /\ wait.chain \in {"mined_ok", "mined_reverted"}
          /\ wait' = [wait EXCEPT !.receipt = wait.chain]
          /\ pc' = "confirmed"
          /\ UNCHANGED frame
       \/ /\ wait.chain \in {"pending", "unknown"}
          /\ UNCHANGED << pc, wait, frame >>
       \/ /\ pc' = "failed"
          /\ frame' = [frame EXCEPT !.err = "RpcError", !.at = "wait"]
          /\ UNCHANGED wait
    /\ UNCHANGED << bindIdleVars, route, broadcasts, conv >>

\* A second passes while the wait is on.
WaitTick ==
    /\ Waiting
    /\ wait.elapsed < WaitTimeoutSeconds
    /\ wait' = [wait EXCEPT !.elapsed = @ + 1]
    /\ UNCHANGED << bindIdleVars, pc, frame, route, broadcasts, conv >>

\* Lines 146-148: the deadline passes, TimeExhausted is logged and re-raised.
WaitTimeout ==
    /\ Waiting
    /\ TimedOut(wait.elapsed)
    /\ pc' = "failed"
    /\ frame' = [frame EXCEPT !.err = "ConfirmationTimeout", !.at = "wait"]
    /\ UNCHANGED << bindIdleVars, route, broadcasts, wait, conv >>

\* The chain mines the pending transaction, successfully or reverted.
ChainMines(status) ==
    /\ Waiting
    /\ wait.chain = "pending"
    /\ wait' = [wait EXCEPT !.chain = status]
    /\ UNCHANGED << bindIdleVars, pc, frame, route, broadcasts, conv >>

\* ------------------------------------------- direct calls of the converter
\* 10^-18 written with a trailing zero, and amounts on both sides of every
\* supported precision and of 2**256 - 1.
ConvValues ==
    {D(0, 0), D(1, 0), D(15, 0 - 1), D(150, 0 - 8), D(1, 0 - 6), D(1, 0 - 7),
     D(25, 0 - 10), D(123, 0 - 18), D(10, 0 - 19), D(1, 0 - 19), D(1, 59), D(1, 60),
     D(1, 72)}

\* A caller about to convert conv.value at conv.decimals.
ConvInit ==
    /\ contract = "None"
    /\ contract_address = NoAddress
    /\ useEip1559 \in BOOLEAN
    /\ bind = IdleBind
    /\ pc = "idle"
    /\ frame = EmptyFrame
    /\ route = NoRoute
    /\ broadcasts = 0
    /\ wait = IdleWait
    /\ \E v \in ConvValues, d \in 0..MaxDecimals :
         conv = [IdleConv EXCEPT !.pc = "start", !.value = v, !.decimals = d]

convIdleVars == << contract, contract_address, useEip1559, bind, pc, frame, route,
                   broadcasts, wait >>

\* to_wei(value, decimals)
ConvToWei ==
    /\ conv.pc = "start"
    /\ conv' = [conv EXCEPT !.pc = "to_done", !.wei = to_wei(conv.value, conv.decimals)]
    /\ UNCHANGED convIdleVars

\* from_wei(to_wei(value, decimals), decimals)
ConvRoundTrip ==
    /\ conv.pc = "to_done"
    /\ conv.wei.ok
    /\ conv' = [conv EXCEPT !.pc = "round_done",
                            !.back = from_wei(conv.wei.val, conv.decimals)]
    /\ UNCHANGED convIdleVars

\* from_wei(number, decimals), the number being the coefficient of conv.value.
ConvFromWei ==
    /\ conv.pc = "start"
    /\ conv' = [conv EXCEPT !.pc = "from_done",
                            !.back = from_wei(conv.value.c, conv.decimals)]
    /\ UNCHANGED convIdleVars

\* --------------------------------------------------------- specifications
BindNext ==
    \/ \E a \in BindAddresses : BindCall(a)
    \/ BindLoadFails
    \/ \E abi \in {"valid", "invalid"} : BindLoaded(abi)
    \/ BindResume

TransferNext ==
    \/ \E r \in Recipients, v \in Amounts : PrepareCall(r, v)
    \/ RpcChainId
    \/ RpcNonce
    \/ \E p \in GasPrices : RpcGasPrice(p)
    \/ \E f \in PriorityFees : RpcMaxPriorityFee(f)
    \/ RpcDecimals
    \/ RpcBuild
    \/ \E g \in GasLimits : RpcEstimateGas(g)
    \/ \E b \in NativeBalances : RpcGetBalance(b)
    \/ \E tb \in TokenBalances : RpcBalanceOf(tb)
    \/ RpcFundsDecimals
    \/ SignAndSend
    \/ RpcSendRaw

WaitNext ==
    \/ WaitPoll
    \/ WaitTick
    \/ WaitTimeout
    \/ \E st \in {"mined_ok", "mined_reverted"} : ChainMines(st)

ConvNext == ConvToWei \/ ConvRoundTrip \/ ConvFromWei

\* The client used by main's flow, set_contract being callable at any time.
Next == BindNext \/ TransferNext \/ WaitNext
Spec == Init /\ [][Next]_vars

\* The unit converter called directly.
SpecConv == ConvInit /\ [][ConvNext]_vars

\* The client's flow, or one direct call of the converter on an idle client.
ClientNext == conv = IdleConv /\ Next
SpecAll == (Init \/ ConvInit) /\ [][ClientNext \/ ConvNext]_vars

\* wait_for_transaction called on any hash; seconds pass and the deadline
\* fires (asyncio's timer).
WaitCallNext == (\E h \in Hashes : WaitCall(h)) \/ WaitNext
SpecWait ==
    /\ Init
    /\ [][WaitCallNext]_vars
    /\ WF_vars(WaitTick)
    /\ WF_vars(WaitTimeout)

\* ------------------------------------------------------------------ claims
Supported == {6, 9, 18}

\* get_balance has returned in the current call of prepare_transaction.
BalanceFetched ==
    \/ pc \in {"balance_of", "funds_decimals", "prepared"}
    \/ pc = "failed" /\ frame.at \in {"balance_of", "funds_decimals"}
    \/ pc = "failed" /\ frame.at = "get_balance" /\ frame.err = "InsufficientFunds"

\* The exact sum of the amount and the estimated gas cost.
AmountPlusGas == DecAddExact(frame.value, frame.gas_cost)

\* C1: for an unbound client, prepare_transaction returns a draft if and only
\* if native balance >= amount + estimated gas cost, and fails with
\* InsufficientFunds otherwise.
C1_NativeFundsExact ==
    /\ (pc = "prepared" /\ route.funds = "native")
           => DecLeq(AmountPlusGas, frame.native_balance)
    /\ (pc = "failed" /\ frame.at = "get_balance" /\ frame.err = "InsufficientFunds"
          /\ route.value = "native" /\ route.build = "native" /\ contract = "None")
           => DecLess(frame.native_balance, AmountPlusGas)

\* The token balance in decimal units: base units scaled by 10^-decimals.
TokenBalanceDecimal == [c |-> frame.contract_balance_wei, x |-> 0 - frame.decimals]

\* C2: for a bound client the funds check fails with gas-shortfall when native
\* balance < gas cost, before the token balance is fetched; otherwise it fails
\* with token-shortfall exactly when the token balance, converted at the
\* token's decimals, is below the amount, and it succeeds when native balance
\* >= gas cost and token balance >= amount; the native balance need not cover
\* the amount.
C2_TokenFunds ==
    /\ (BalanceFetched /\ DecLess(frame.native_balance, frame.gas_cost))
           => /\ pc = "failed"
              /\ frame.shortfall = "gas"
              /\ frame.err = "InsufficientFunds"
              /\ frame.contract_balance_wei = << >>
              /\ route.funds = "unset"
    /\ (pc = "failed" /\ frame.shortfall = "gas")
           => DecLess(frame.native_balance, frame.gas_cost)
    /\ (pc = "failed" /\ frame.at = "funds_decimals" /\ frame.decimals \in Supported
          /\ frame.err # "RpcError")
           => /\ frame.shortfall = "token"
              /\ frame.err = "InsufficientFunds"
              /\ DecLess(TokenBalanceDecimal, frame.value)
    /\ (pc = "prepared" /\ route.funds = "token")
           => /\ DecLeq(frame.gas_cost, frame.native_balance)
              /\ DecLeq(frame.value, TokenBalanceDecimal)
              /\ frame.decimals \in Supported

\* A bound client's draft is returned although the native balance is below
\* amount + gas cost.
C2_Witness ==
    /\ pc = "prepared"
    /\ route.funds = "token"
    /\ frame.value.c # << >>
    /\ DecLess(frame.native_balance, AmountPlusGas)

\* r = floor(fee * 21 / 20) and r = ceil(fee * 21 / 20).
IsFloorMarkup(r, fee) ==
    r * MarkupDen <= fee * MarkupNum /\ fee * MarkupNum < (r + 1) * MarkupDen
IsCeilMarkup(r, fee) ==
    (r - 1) * MarkupDen < fee * MarkupNum /\ fee * MarkupNum <= r * MarkupDen

\* The fee fields of a returned draft, the markup rounded up or down.
FeeFields(up) ==
    pc = "prepared" =>
        LET t == frame.transaction
        IN  IF useEip1559
            THEN /\ {"maxPriorityFeePerGas", "maxFeePerGas"} \subseteq t.keys
                 /\ "gasPrice" \notin t.keys
                 /\ t.maxPriorityFeePerGas = frame.max_priority_fee
                 /\ IF up
                    THEN IsCeilMarkup(t.maxFeePerGas,
                                      frame.base_fee + frame.max_priority_fee)
                    ELSE IsFloorMarkup(t.maxFeePerGas,
                                       frame.base_fee + frame.max_priority_fee)
            ELSE /\ "gasPrice" \in t.keys
                 /\ t.keys \cap {"maxPriorityFeePerGas", "maxFeePerGas"} = {}
                 /\ IF up THEN IsCeilMarkup(t.gasPrice, frame.gas_price)
                          ELSE IsFloorMarkup(t.gasPrice, frame.gas_price)

Rank(p) ==
    CASE p = "idle" -> 0
      [] p = "chain_id" -> 1
      [] p = "nonce" -> 2
      [] p = "gas_price" -> 3
      [] p = "max_priority_fee" -> 4
      [] p = "decimals" -> 5
      [] p = "build" -> 6
      [] p = "estimate_gas" -> 7
      [] p = "get_balance" -> 8
      [] p = "balance_of" -> 9
      [] p = "funds_decimals" -> 10
      [] p = "prepared" -> 11
      [] p = "send_raw" -> 12
      [] p = "wait_poll" -> 13
      [] p = "confirmed" -> 14
      [] p = "failed" -> 15

\* The funds check of the call has passed, as the code computes it.
FundsVerified(fr, rt) ==
    /\ ~GasShortfall(fr.native_balance, fr.gas_cost)
    /\ rt.funds = "token" => ~TokenShortfall(fr.contract_balance, fr.value)
    /\ rt.funds = "native" => ~CombinedShortfall(fr.native_balance, fr.value, fr.gas_cost)
    /\ rt.funds # "unset"

\* C4: a transaction is broadcast only after its prepare_transaction returned
\* a draft, the funds check having passed; a failure of any step ends the flow
\* at that step, no later step runs, and no step runs twice.
C4_BroadcastAfterPrepare ==
    [][ /\ pc = "failed" => (pc' = "failed" /\ broadcasts' = broadcasts /\ frame' = frame)
        /\ frame'.err # "none" => pc' = "failed"
        /\ pc' # pc => Rank(pc') > Rank(pc)
        /\ broadcasts' # broadcasts =>
               (pc = "send_raw" /\ broadcasts = 0 /\ broadcasts' = 1)
        /\ (pc' = "send_raw" /\ pc # "send_raw") => pc = "prepared"
        /\ (pc' = "prepared" /\ pc # "prepared") =>
               /\ pc \in {"get_balance", "funds_decimals"}
               /\ FundsVerified(frame', route')
               /\ "gas" \in frame'.transaction.keys
      ]_vars

\* The transaction has been broadcast and the flow waits for its receipt.
C4_Witness == broadcasts = 1 /\ pc = "wait_poll"

\* C5: the client starts unbound; once bound it is never unbound again; a
\* set_contract call given a well-formed address and a usable ABI sets the
\* handle and the address to that call's, whatever was bound before; and only
\* such a call changes the handle.
C5_BindingOneWay ==
    /\ contract = "None" /\ contract_address = NoAddress
    /\ [][ /\ contract # "None" => contract' # "None"
           /\ (bind.pc = "loaded" /\ bind'.pc = "idle" /\ bind.abi = "valid"
                 /\ bind.arg.form # "malformed")
                  => /\ contract' = bind.arg.tok
                     /\ contract_address' = Addr(bind.arg.tok, "checksum")
           /\ contract' # contract
                  => (bind.pc = "loaded" /\ bind.abi = "valid" /\ contract' = bind.arg.tok)
         ]_vars

\* The client built a draft for tokA and is now bound to tokB: a second
\* set_contract took effect.
C5_Witness ==
    /\ frame.token = "tokA"
    /\ contract = "tokB"
    /\ contract_address = Addr("tokB", "checksum")
    /\ bind.pc = "idle"

\* x * 10^d is an integer, and it is at most 2**256 - 1.
IsIntegerAt(x, d) ==
    LET s == x.x + d
        n == Len(x.c)
    IN  s >= 0 \/ \A i \in Max(1, n + s + 1)..n : x.c[i] = 0
Representable(x, d) ==
    /\ IsIntegerAt(x, d)
    /\ ~BigLess(MaxWei, Coeff(x, Min(x.x, 0 - d)))

C7_UnsupportedPrecision ==
    /\ (conv.decimals \notin Supported /\ conv.pc = "to_done")
           => conv.wei = Err("UnsupportedPrecision")
    /\ (conv.decimals \notin Supported /\ conv.pc = "from_done")
           => (~conv.back.ok /\ conv.back.err = "UnsupportedPrecision"
                /\ conv.back.val = << >>)
    /\ (conv.decimals \notin Supported) => conv.pc # "round_done"
    /\ (route.build = "token" /\ TokenDecimals[frame.token] \notin Supported)
           => \/ pc = "decimals"
              \/ /\ pc = "failed"
                 /\ frame.at = "decimals"
                 /\ frame.err \in {"UnsupportedPrecision", "ContractCallError", "RpcError"}
                 /\ frame.transaction.gas = 0
                 /\ "gas" \notin frame.transaction.keys
                 /\ frame.native_balance_wei = << >>
                 /\ frame.gas_cost = DecZero

\* to_wei was called with 0 decimals and failed.
C7_Witness ==
    /\ conv.pc = "to_done"
    /\ conv.decimals = 0
    /\ conv.value.c # << >>
    /\ ~conv.wei.ok

\* C8: wait_for_transaction ends: with the receipt of a mined transaction,
\* with ConfirmationTimeout once 120 seconds have passed, or with the error
\* of a failed poll; once ended it does nothing more.
C8_WaitBounded ==
    /\ Waiting ~> pc \in {"confirmed", "failed"}
    /\ [](wait.elapsed <= WaitTimeoutSeconds)
    /\ []((pc = "failed" /\ frame.err = "ConfirmationTimeout")
             => (wait.elapsed = WaitTimeoutSeconds /\ wait.receipt = "none"))
    /\ [](pc = "confirmed" => wait.receipt \in {"mined_ok", "mined_reverted"})
    /\ [][ (pc = "confirmed" \/ pc = "failed") => (pc' = pc /\ wait' = wait) ]_vars

\* The wait on a hash that never mines has failed with ConfirmationTimeout.
C8_Witness ==
    /\ pc = "failed"
    /\ frame.err = "ConfirmationTimeout"
    /\ wait.hash = "unknown"
    /\ wait.elapsed = WaitTimeoutSeconds

\* C9: within one prepare_transaction the tests of self.contract all take the
\* same branch, and a returned draft never carries both a non-zero native
\* value and token transfer call data.
C9_BindingObservedOnce ==
    /\ \A a, b \in {route.value, route.build, route.funds} :
           (a # "unset" /\ b # "unset") => a = b
    /\ pc = "prepared" =>
           ~(frame.transaction.value # << >> /\ frame.transaction.data.fn = "transfer")

\* C10: a set_contract call that fails, in _load_abi, in to_checksum_address
\* or in eth.contract, leaves contract and contract_address as they were.
C10_FailedBindUnchanged ==
    [][ ((bind.pc = "load_abi" /\ bind'.pc = "idle")
           \/ (bind.pc = "loaded" /\ bind'.pc = "idle"
                 /\ (bind.abi = "invalid" \/ bind.arg.form = "malformed")))
        => (contract' = contract /\ contract_address' = contract_address)
      ]_vars

=============================================================================
